---------------------------- MODULE Spec2Model ----------------------------
(***************************************************************************)
(* A model of the sign-in state machine and the credential cache codec of  *)
(* AuthRepository.kt (MYDID2, Android FIDO2 client).                        *)
(*                                                                         *)
(* The repository object is shared by the main thread (getSignInState,     *)
(* onActive, onInactive, setFido2APiClient) and by the tasks the public    *)
(* operations hand to a 64-thread executor.  A task is modelled as a       *)
(* sequence of steps, one per access to shared memory (a SharedPreferences *)
(* read or edit, lastKnownChallenge, signInStateListeners, a LiveData);    *)
(* the API call and the local computation that precede an access belong to *)
(* its step.  prefs.edit{} applies to the in-memory map atomically, with   *)
(* commit = true or without.                                               *)
(*                                                                         *)
(* Strings that the codec builds and splits are sequences of character     *)
(* codes; all other strings are opaque.                                    *)
(*                                                                         *)
(* The module also models the save button of BoardWriteForm.jsx, the web   *)
(* client's form for writing a post (BoardSpec).                           *)
(***************************************************************************)
EXTENDS Integers, Sequences, FiniteSets, TLC

\* The pending tasks' slots, the state streams, the codec's inputs.
MaxTasks == 2
MaxStreams == 2
MaxObserved == 1
MaxCreds == 11
MaxRaw == 2

NULL == "<null>"
Blank == ""

Tasks == 1..MaxTasks
Streams == 1..MaxStreams

Usernames == {"alice", "bob"}
Tokens == {"t1"}
\* The server issues its challenges per ceremony: one it issued for a registration
\* is never the string it issued for a sign-in.
RegisterChallenges == {"ch1"}
SigninChallenges == {"ch2"}
KeyHandles == {"kh1"}
Messages == {NULL, "invalid credentials"}

-----------------------------------------------------------------------------
(* Characters, as their codes.                                             *)

Semi == 59
Zero == 48
LetterA == 97
LetterK == 107

RECURSIVE ToDecimal(_)
\* "$index": the decimal digits of a non-negative Int.
ToDecimal(n) ==
  IF n < 10 THEN << Zero + n >>
  ELSE ToDecimal(n \div 10) \o << Zero + (n % 10) >>

Credential(id, publicKey) == [id |-> id, publicKey |-> publicKey]

\* List<Credential>.toStringSet(): "$index;${credential.id};${credential.publicKey}"
toStringSet(list) ==
  { ToDecimal(i - 1) \o << Semi >> \o list[i].id \o << Semi >> \o list[i].publicKey
      : i \in 1..Len(list) }

FirstSemi(s) ==
  IF \E i \in 1..Len(s) : s[i] = Semi
  THEN CHOOSE i \in 1..Len(s) : s[i] = Semi /\ \A j \in 1..(i - 1) : s[j] # Semi
  ELSE 0

RECURSIVE Split(_)
\* s.split(";"): every field, the empty ones and the trailing ones included.
Split(s) ==
  IF FirstSemi(s) = 0 THEN << s >>
  ELSE << SubSeq(s, 1, FirstSemi(s) - 1) >> \o Split(SubSeq(s, FirstSemi(s) + 1, Len(s)))

RECURSIVE CompareTo(_, _)
\* String.compareTo: by character code, a proper prefix first.
CompareTo(a, b) ==
  IF a = << >> /\ b = << >> THEN 0
  ELSE IF a = << >> THEN -1
  ELSE IF b = << >> THEN 1
  ELSE IF Head(a) # Head(b) THEN Head(a) - Head(b)
  ELSE CompareTo(Tail(a), Tail(b))

\* sortedBy { (index, _) -> index }: the index is the String that split() returned.
IndexBefore(r1, r2) == CompareTo(Split(r1)[1], Split(r2)[1]) < 0

RECURSIVE SortedArrangements(_)
\* set.map{}.sortedBy{}: the set is iterated in an order of its own and the sort is
\* stable, so records with equal indexes keep that order; every arrangement in
\* non-decreasing index order is a possible result.
SortedArrangements(S) ==
  IF S = {} THEN { << >> }
  ELSE UNION { { << m >> \o rest : rest \in SortedArrangements(S \ {m}) }
                 : m \in { r \in S : \A q \in S : ~IndexBefore(q, r) } }

ParseOk(list) == [ok |-> TRUE, list |-> list]
ParseThrows == [ok |-> FALSE, list |-> << >>]

\* val (index, id, publicKey) = s.split(";"): component3() of a shorter list throws
\* IndexOutOfBoundsException; fields after the third are not looked at.
Destructures(s) == Len(Split(s)) >= 3

\* parseCredentials(set): the results it can produce.
parseCredentials(set) ==
  IF \E s \in set : ~Destructures(s) THEN { ParseThrows }
  ELSE { ParseOk([i \in 1..Len(arr) |-> Credential(Split(arr[i])[2], Split(arr[i])[3])])
           : arr \in SortedArrangements(set) }


-----------------------------------------------------------------------------
(* SignInState.                                                            *)

NoState == [kind |-> "none"]
SignedOut == [kind |-> "SignedOut"]
SigningIn(username) == [kind |-> "SigningIn", username |-> username]
SignedIn(username, token) == [kind |-> "SignedIn", username |-> username, token |-> token]
SignInError(error) == [kind |-> "SignInError", error |-> error]

DefaultMessage == "default message"

isNullOrBlank(s) == s = NULL \/ s = Blank

-----------------------------------------------------------------------------
(* The collaborators.  AuthApi and the FIDO2 client are not part of the    *)
(* sources at hand: an API call returns one of the values its signature    *)
(* allows or raises ApiException, whatever its arguments.                  *)

Cred1 == Credential(<< LetterA >>, << LetterK >>)
Cred2 == Credential(<< LetterA + 1 >>, << LetterK >>)
CredLists == { << Cred2, Cred1 >>, << Cred1 >> }

ApiException(message) == [ok |-> FALSE, message |-> message]
ApiErrors == { ApiException(m) : m \in Messages }

ApiUsername(username) ==
  { [ok |-> TRUE, username |-> u] : u \in Usernames } \cup ApiErrors
ApiPassword(username) ==
  { [ok |-> TRUE, token |-> k, username |-> u] : k \in Tokens, u \in Usernames } \cup ApiErrors
ApiRegisterRequest(token, username) ==
  { [ok |-> TRUE, challenge |-> c] : c \in RegisterChallenges } \cup { ApiException(NULL) }
ApiRegisterResponse(token, challenge) ==
  { [ok |-> TRUE, credentials |-> l] : l \in CredLists } \cup { ApiException(NULL) }
ApiSigninRequest(username, credentialId) ==
  { [ok |-> TRUE, challenge |-> c] : c \in SigninChallenges } \cup { ApiException(NULL) }
ApiSigninResponse(username, challenge) ==
  { [ok |-> TRUE, credentials |-> l, token |-> k] : l \in CredLists, k \in Tokens }
    \cup { ApiException(NULL) }

\* The Intent a ceremony hands back: its FIDO2_KEY_RESPONSE_EXTRA deserializes to a
\* response with a key handle, or does not deserialize.
Intents == { [ok |-> TRUE, keyHandle |-> k] : k \in KeyHandles } \cup { [ok |-> FALSE, keyHandle |-> NULL] }

-----------------------------------------------------------------------------
VARIABLES
  prefs,                 \* the SharedPreferences "auth"
  lastKnownChallenge,
  fido2ApiClient,
  signInStateListeners,  \* the streams whose listener is in the list, in order
  streams,               \* the LiveData objects getSignInState() returned
  tasks,                 \* the executor's tasks
  credentialList,        \* the codec's input, output and position
  records,
  parsed,
  codecPc,
  query,                 \* BoardWriteForm: props.location.query, the post being edited
  boardTitle,            \* the value of the title input
  boardContent,          \* the value of the content textarea
  imgFile,               \* the files of the file input, by name
  formPc,                \* the form, mounted or not
  alerted,               \* the alert of the last click on the save button
  posts                  \* the requests axios.post has sent

store == << prefs, lastKnownChallenge, fido2ApiClient >>
codec == << credentialList, records, parsed, codecPc >>
board == << query, boardTitle, boardContent, imgFile, formPc, alerted, posts >>
vars == << prefs, lastKnownChallenge, fido2ApiClient, signInStateListeners, streams, tasks,
           credentialList, records, parsed, codecPc,
           query, boardTitle, boardContent, imgFile, formPc, alerted, posts >>

NoCredentials == [has |-> FALSE, set |-> {}]
StoredCredentials(list) == [has |-> TRUE, set |-> toStringSet(list)]

EmptyPrefs ==
  [username |-> NULL, token |-> NULL, credentials |-> NoCredentials, localCredentialId |-> NULL]

NoStream == [created |-> FALSE, value |-> NoState]

IdleTask ==
  [op |-> "none", pc |-> "idle", flag |-> "unset", outcome |-> "none",
   username |-> NULL, result |-> NULL, token |-> NULL, message |-> NULL,
   credentials |-> << >>, credentialId |-> NULL, challenge |-> NULL, intent |-> FALSE,
   pendingIntent |-> FALSE,
   state |-> NoState, invoked |-> 0, listeners |-> << >>, broken |-> FALSE, next |-> 0,
   got |-> [s \in Streams |-> << >>]]

FlagOps ==
  { "username", "password", "registerRequest", "registerResponse", "signinRequest",
    "signinResponse" }

Free(t) == tasks[t].pc \in { "idle", "done", "threw" }
InFlight == { t \in Tasks : ~Free(t) }

CodecIdle ==
  /\ credentialList = << >>
  /\ records = {}
  /\ parsed = ParseOk(<< >>)
  /\ codecPc = "input"

\* props.location.query undefined: the form is for a new post.
undefined == [defined |-> FALSE, _id |-> NULL, title |-> Blank, content |-> Blank]

\* BoardWriteForm is not on the page.
NoForm ==
  /\ query = undefined
  /\ boardTitle = Blank
  /\ boardContent = Blank
  /\ imgFile = << >>
  /\ formPc = "closed"
  /\ alerted = "none"
  /\ posts = << >>

Init ==
  /\ prefs = EmptyPrefs
  /\ lastKnownChallenge = NULL
  /\ fido2ApiClient = NULL
  /\ signInStateListeners = << >>
  /\ streams = [s \in Streams |-> NoStream]
  /\ tasks = [t \in Tasks |-> IdleTask]
  /\ CodecIdle
  /\ NoForm

-----------------------------------------------------------------------------
(* The main thread.                                                        *)

setFido2APiClient(client) ==
  /\ client # fido2ApiClient
  /\ fido2ApiClient' = client
  /\ UNCHANGED << prefs, lastKnownChallenge, signInStateListeners, streams, tasks, codec, board >>

\* A getSignInState() that looks at the username alone.
InitialValueFromUsername(username, token) ==
  IF isNullOrBlank(username) THEN SignedOut ELSE SigningIn(username)

\* The value the init block of getSignInState()'s LiveData sets.
InitialValue(username, token) ==
  IF isNullOrBlank(username) THEN SignedOut
  ELSE IF isNullOrBlank(token) THEN SigningIn(username)
  ELSE SignedIn(username, token)

getSignInState(s, m) ==
  /\ s <= m
  /\ ~streams[s].created
  /\ \A r \in Streams : r < s => streams[r].created
  /\ streams' = [streams EXCEPT ![s] =
                   [created |-> TRUE, value |-> InitialValue(prefs.username, prefs.token)]]
  /\ UNCHANGED << store, signInStateListeners, tasks, codec, board >>

Registered(s) == \E i \in 1..Len(signInStateListeners) : signInStateListeners[i] = s

onActive(s) ==
  /\ streams[s].created
  /\ ~Registered(s)
  /\ signInStateListeners' = Append(signInStateListeners, s)
  /\ UNCHANGED << store, streams, tasks, codec, board >>

\* MutableList.remove(element): the first occurrence.
RemoveFirst(list, s) ==
  LET i == CHOOSE k \in 1..Len(list) : list[k] = s /\ \A j \in 1..(k - 1) : list[j] # s
  IN  SubSeq(list, 1, i - 1) \o SubSeq(list, i + 1, Len(list))

onInactive(s) ==
  /\ Registered(s)
  /\ signInStateListeners' = RemoveFirst(signInStateListeners, s)
  /\ UNCHANGED << store, streams, tasks, codec, board >>

-----------------------------------------------------------------------------
(* executor.execute { }: a task takes the lowest free slot; at most n      *)
(* tasks are in flight.                                                    *)

Execute(t, n, op, username, intent) ==
  /\ Free(t)
  /\ \A r \in Tasks : r < t => ~Free(r)
  /\ Cardinality(InFlight) < n
  /\ tasks' = [tasks EXCEPT ![t] =
                 [IdleTask EXCEPT !.op = op, !.pc = "start", !.username = username,
                                  !.credentialId = intent.keyHandle, !.intent = intent.ok]]
  /\ UNCHANGED << store, signInStateListeners, streams, codec, board >>

NoIntent == [ok |-> FALSE, keyHandle |-> NULL]

At(t, op, pc) == tasks[t].op = op /\ tasks[t].pc = pc

\* The task's end, normal ("done") or by an exception that leaves run() ("threw");
\* the record stays until the slot is taken again.
Ended(task, pc, outcome) == [task EXCEPT !.pc = pc, !.outcome = outcome]

\* The end through finally { processing.postValue(false) }, where the operation has one.
Finally(task, pc, outcome) ==
  [Ended(task, pc, outcome) EXCEPT
     !.flag = IF task.op \in FlagOps /\ task.flag = "true" THEN "false" ELSE task.flag]

\* invokeSignInStateListeners(state), its call.
Invoke(task, state, outcome) ==
  [task EXCEPT !.state = state, !.outcome = outcome, !.pc = "toList", !.invoked = @ + 1]

\* val listeners = signInStateListeners.toList(), its start.  The list is a plain
\* MutableList that the main thread changes (onActive, onInactive) while tasks on
\* the pool copy it; no lock orders the two.
CopyListeners(t) ==
  /\ tasks[t].pc = "toList"
  /\ tasks' = [tasks EXCEPT ![t] =
                 IF signInStateListeners = << >>
                 THEN Finally(tasks[t], "done", tasks[t].outcome)
                 ELSE [tasks[t] EXCEPT !.listeners = signInStateListeners, !.pc = "copy"]]
  /\ UNCHANGED << store, signInStateListeners, streams, codec, board >>

\* What a copy that began on the list `seen` can hold when the list is `now` at
\* its end: with no change in between, the list; else the list as it was, the
\* list as it is, and, when it has shrunk, the shifted elements up to the old
\* size (the last one twice) or the list followed by a hole, whose call throws.
RacyCopies(seen, now) ==
  IF now = seen
  THEN { [list |-> seen, broken |-> FALSE] }
  ELSE { [list |-> seen, broken |-> FALSE], [list |-> now, broken |-> FALSE] }
         \cup (IF Len(now) < Len(seen) THEN { [list |-> now, broken |-> TRUE] } ELSE {})
         \cup (IF 0 < Len(now) /\ Len(now) < Len(seen) /\ now[Len(now)] = seen[Len(seen)]
               THEN { [list |-> now \o [i \in 1..(Len(seen) - Len(now)) |-> now[Len(now)]],
                       broken |-> FALSE] }
               ELSE {})

\* The end of a task whose notification is over: normally, or by the exception
\* of a copy that broke.
Delivered(task) ==
  Finally(task, IF task.broken THEN "threw" ELSE "done", task.outcome)

\* val listeners = signInStateListeners.toList(), its end.
CopyElements(t) ==
  /\ tasks[t].pc = "copy"
  /\ \E c \in RacyCopies(tasks[t].listeners, signInStateListeners) :
       LET copied == [tasks[t] EXCEPT !.listeners = c.list, !.broken = c.broken]
       IN  tasks' = [tasks EXCEPT ![t] =
                       IF c.list = << >> THEN Delivered(copied)
                       ELSE [copied EXCEPT !.next = 1, !.pc = "listener"]]
  /\ UNCHANGED << store, signInStateListeners, streams, codec, board >>

\* listener(state): postValue(state) on the listener's LiveData.
CallListener(t) ==
  /\ tasks[t].pc = "listener"
  /\ LET task == tasks[t]
         s == task.listeners[task.next]
         told == [task EXCEPT !.got[s] = Append(@, task.state), !.next = @ + 1]
     IN  /\ streams' = [streams EXCEPT ![s].value = task.state]
         /\ tasks' = [tasks EXCEPT ![t] =
                        IF task.next = Len(task.listeners) THEN Delivered(told) ELSE told]
  /\ UNCHANGED << store, signInStateListeners, codec, board >>

-----------------------------------------------------------------------------
(* username(username, sending)                                             *)

username(t, n, name) == Execute(t, n, "username", name, NoIntent)

\* A username() that catches the API's exception and ends normally.
usernameCallSwallowing(t) ==
  /\ At(t, "username", "start")
  /\ \E r \in ApiUsername(tasks[t].username) :
       LET running == [tasks[t] EXCEPT !.flag = "true"]
       IN  tasks' = [tasks EXCEPT ![t] =
                       IF r.ok THEN [running EXCEPT !.result = r.username, !.pc = "edit"]
                       ELSE Finally(running, "done", "caught")]
  /\ UNCHANGED << store, signInStateListeners, streams, codec, board >>

\* sending.postValue(true); val result = api.username(username)
usernameCall(t) ==
  /\ At(t, "username", "start")
  /\ \E r \in ApiUsername(tasks[t].username) :
       LET running == [tasks[t] EXCEPT !.flag = "true"]
       IN  tasks' = [tasks EXCEPT ![t] =
                       IF r.ok THEN [running EXCEPT !.result = r.username, !.pc = "edit"]
                       ELSE Finally(running, "threw", "ApiException")]
  /\ UNCHANGED << store, signInStateListeners, streams, codec, board >>

\* A username() that tells the listeners the name the API returned.
usernameEditTellingResult(t) ==
  /\ At(t, "username", "edit")
  /\ prefs' = [prefs EXCEPT !.username = tasks[t].result]
  /\ tasks' = [tasks EXCEPT ![t] = Invoke(@, SigningIn(@.result), "success")]
  /\ UNCHANGED << lastKnownChallenge, fido2ApiClient, signInStateListeners, streams, codec, board >>

\* prefs.edit(commit = true) { putString(PREF_USERNAME, result) }
usernameEdit(t) ==
  /\ At(t, "username", "edit")
  /\ prefs' = [prefs EXCEPT !.username = tasks[t].result]
  /\ tasks' = [tasks EXCEPT ![t] = Invoke(@, SigningIn(@.username), "success")]
  /\ UNCHANGED << lastKnownChallenge, fido2ApiClient, signInStateListeners, streams, codec, board >>

-----------------------------------------------------------------------------
(* password(password, processing)                                          *)

password(t, n) == Execute(t, n, "password", NULL, NoIntent)

\* processing.postValue(true); val username = prefs.getString(PREF_USERNAME, null)!!
\* is outside the try; then api.password(username, password).
passwordCall(t) ==
  /\ At(t, "password", "start")
  /\ LET running == [tasks[t] EXCEPT !.flag = "true", !.username = prefs.username]
     IN  IF prefs.username = NULL
         THEN tasks' = [tasks EXCEPT ![t] =
                          Ended(running, "threw", "NullPointerException")]
         ELSE \E r \in ApiPassword(prefs.username) :
                tasks' = [tasks EXCEPT ![t] =
                            IF r.ok
                            THEN [running EXCEPT !.token = r.token, !.result = r.username,
                                                 !.pc = "editToken"]
                            ELSE [running EXCEPT !.message = r.message, !.pc = "catch"]]
  /\ UNCHANGED << store, signInStateListeners, streams, codec, board >>

\* A password() that does not store the token.
passwordEditTokenSkipped(t) ==
  /\ At(t, "password", "editToken")
  /\ tasks' = [tasks EXCEPT ![t].pc = "editUsername"]
  /\ UNCHANGED << store, signInStateListeners, streams, codec, board >>

\* prefs.edit(commit = true) { putString(PREF_TOKEN, token) }
passwordEditToken(t) ==
  /\ At(t, "password", "editToken")
  /\ prefs' = [prefs EXCEPT !.token = tasks[t].token]
  /\ tasks' = [tasks EXCEPT ![t].pc = "editUsername"]
  /\ UNCHANGED << lastKnownChallenge, fido2ApiClient, signInStateListeners, streams, codec, board >>

\* prefs.edit(commit = true) { putString(PREF_USERNAME, username2) }
passwordEditUsername(t) ==
  /\ At(t, "password", "editUsername")
  /\ prefs' = [prefs EXCEPT !.username = tasks[t].result]
  /\ tasks' = [tasks EXCEPT ![t] = Invoke(@, SignedIn(@.username, @.token), "success")]
  /\ UNCHANGED << lastKnownChallenge, fido2ApiClient, signInStateListeners, streams, codec, board >>

\* A catch block that leaves the credentials in the store.
passwordCatchKeepingCredentials(t) ==
  /\ At(t, "password", "catch")
  /\ prefs' = [prefs EXCEPT !.username = NULL, !.token = NULL]
  /\ tasks' = [tasks EXCEPT ![t] =
                 Invoke(@, SignInError(IF @.message = NULL THEN DefaultMessage ELSE @.message),
                        "rejected")]
  /\ UNCHANGED << lastKnownChallenge, fido2ApiClient, signInStateListeners, streams, codec, board >>

\* catch (e: ApiException): remove the three keys, then SignInError(e.message ?: default)
passwordCatch(t) ==
  /\ At(t, "password", "catch")
  /\ prefs' = [prefs EXCEPT !.username = NULL, !.token = NULL, !.credentials = NoCredentials]
  /\ tasks' = [tasks EXCEPT ![t] =
                 Invoke(@, SignInError(IF @.message = NULL THEN DefaultMessage ELSE @.message),
                        "rejected")]
  /\ UNCHANGED << lastKnownChallenge, fido2ApiClient, signInStateListeners, streams, codec, board >>

-----------------------------------------------------------------------------
(* clearToken() and signOut()                                              *)

clearToken(t, n) == Execute(t, n, "clearToken", NULL, NoIntent)

\* val username = prefs.getString(PREF_USERNAME, null)!!
clearTokenRead(t) ==
  /\ At(t, "clearToken", "start")
  /\ tasks' = [tasks EXCEPT ![t] =
                 IF prefs.username = NULL
                 THEN Finally(@, "threw", "NullPointerException")
                 ELSE [@ EXCEPT !.username = prefs.username, !.pc = "edit"]]
  /\ UNCHANGED << store, signInStateListeners, streams, codec, board >>

\* A clearToken() that removes the username with the token.
clearTokenEditRemovingUsername(t) ==
  /\ At(t, "clearToken", "edit")
  /\ prefs' = [prefs EXCEPT !.username = NULL, !.token = NULL, !.credentials = NoCredentials]
  /\ tasks' = [tasks EXCEPT ![t] = Invoke(@, SigningIn(@.username), "success")]
  /\ UNCHANGED << lastKnownChallenge, fido2ApiClient, signInStateListeners, streams, codec, board >>

\* A clearToken() that stores an empty credential set instead of removing the key.
clearTokenEditEmptyingSet(t) ==
  /\ At(t, "clearToken", "edit")
  /\ prefs' = [prefs EXCEPT !.token = NULL, !.credentials = StoredCredentials(<< >>)]
  /\ tasks' = [tasks EXCEPT ![t] = Invoke(@, SigningIn(@.username), "success")]
  /\ UNCHANGED << lastKnownChallenge, fido2ApiClient, signInStateListeners, streams, codec, board >>

clearTokenEdit(t) ==
  /\ At(t, "clearToken", "edit")
  /\ prefs' = [prefs EXCEPT !.token = NULL, !.credentials = NoCredentials]
  /\ tasks' = [tasks EXCEPT ![t] = Invoke(@, SigningIn(@.username), "success")]
  /\ UNCHANGED << lastKnownChallenge, fido2ApiClient, signInStateListeners, streams, codec, board >>

signOut(t, n) == Execute(t, n, "signOut", NULL, NoIntent)

\* A signOut() that removes the local credential id too.
signOutEditRemovingLocalId(t) ==
  /\ At(t, "signOut", "start")
  /\ prefs' = EmptyPrefs
  /\ tasks' = [tasks EXCEPT ![t] = Invoke(@, SignedOut, "success")]
  /\ UNCHANGED << lastKnownChallenge, fido2ApiClient, signInStateListeners, streams, codec, board >>

\* A signOut() that leaves the token in the store.
signOutEditKeepingToken(t) ==
  /\ At(t, "signOut", "start")
  /\ prefs' = [prefs EXCEPT !.username = NULL, !.credentials = NoCredentials]
  /\ tasks' = [tasks EXCEPT ![t] = Invoke(@, SignedOut, "success")]
  /\ UNCHANGED << lastKnownChallenge, fido2ApiClient, signInStateListeners, streams, codec, board >>

signOutEdit(t) ==
  /\ At(t, "signOut", "start")
  /\ prefs' = [prefs EXCEPT !.username = NULL, !.token = NULL, !.credentials = NoCredentials]
  /\ tasks' = [tasks EXCEPT ![t] = Invoke(@, SignedOut, "success")]
  /\ UNCHANGED << lastKnownChallenge, fido2ApiClient, signInStateListeners, streams, codec, board >>

-----------------------------------------------------------------------------
(* registerRequest(processing) and registerResponse(data, processing)      *)

registerRequest(t, n) == Execute(t, n, "registerRequest", NULL, NoIntent)

\* A registerRequest() that raises and lowers its flag with no client configured.
registerRequestCallFlagging(t) ==
  /\ At(t, "registerRequest", "start")
  /\ LET running == [tasks[t] EXCEPT !.flag = "true"]
     IN  IF fido2ApiClient = NULL
         THEN tasks' = [tasks EXCEPT ![t] = Finally(running, "done", "noClient")]
         ELSE IF prefs.token = NULL \/ prefs.username = NULL
         THEN tasks' = [tasks EXCEPT ![t] = Finally(running, "done", "caught")]
         ELSE \E r \in ApiRegisterRequest(prefs.token, prefs.username) :
                tasks' = [tasks EXCEPT ![t] =
                            IF r.ok
                            THEN [running EXCEPT !.challenge = r.challenge, !.pc = "challenge"]
                            ELSE Finally(running, "done", "caught")]
  /\ UNCHANGED << store, signInStateListeners, streams, codec, board >>

\* fido2ApiClient?.let { processing.postValue(true); try { token!!, username!!,
\* api.registerRequest(token, username) } catch (e: Exception) { } finally { } }
registerRequestCall(t) ==
  /\ At(t, "registerRequest", "start")
  /\ LET running == [tasks[t] EXCEPT !.flag = "true"]
     IN  IF fido2ApiClient = NULL
         THEN tasks' = [tasks EXCEPT ![t] = Finally(@, "done", "noClient")]
         ELSE IF prefs.token = NULL \/ prefs.username = NULL
         THEN tasks' = [tasks EXCEPT ![t] = Finally(running, "done", "caught")]
         ELSE \E r \in ApiRegisterRequest(prefs.token, prefs.username) :
                tasks' = [tasks EXCEPT ![t] =
                            IF r.ok
                            THEN [running EXCEPT !.challenge = r.challenge, !.pc = "challenge"]
                            ELSE Finally(running, "done", "caught")]
  /\ UNCHANGED << store, signInStateListeners, streams, codec, board >>

\* lastKnownChallenge = challenge; result.postValue(Tasks.await(getRegisterIntent(options)))
registerRequestIntent(t) ==
  /\ At(t, "registerRequest", "challenge")
  /\ lastKnownChallenge' = tasks[t].challenge
  /\ \E awaited \in BOOLEAN :
       tasks' = [tasks EXCEPT ![t] =
                   IF awaited THEN Finally([@ EXCEPT !.pendingIntent = TRUE], "done", "success")
                   ELSE Finally(@, "done", "caught")]
  /\ UNCHANGED << prefs, fido2ApiClient, signInStateListeners, streams, codec, board >>

registerResponse(t, n, data) == Execute(t, n, "registerResponse", NULL, data)

\* token!!, lastKnownChallenge!!, deserializeFromBytes(getByteArrayExtra()!!) and
\* api.registerResponse(token, challenge, response); only ApiException is caught.
registerResponseCall(t) ==
  /\ At(t, "registerResponse", "start")
  /\ LET running == [tasks[t] EXCEPT !.flag = "true"]
     IN  IF prefs.token = NULL \/ lastKnownChallenge = NULL
         THEN tasks' = [tasks EXCEPT ![t] = Finally(running, "threw", "NullPointerException")]
         ELSE IF ~tasks[t].intent
         THEN tasks' = [tasks EXCEPT ![t] = Finally(running, "threw", "deserialize")]
         ELSE \E r \in ApiRegisterResponse(prefs.token, lastKnownChallenge) :
                tasks' = [tasks EXCEPT ![t] =
                            IF r.ok
                            THEN [running EXCEPT !.challenge = lastKnownChallenge,
                                                 !.credentials = r.credentials, !.pc = "edit"]
                            ELSE Finally([running EXCEPT !.challenge = lastKnownChallenge],
                                         "done", "caught")]
  /\ UNCHANGED << store, signInStateListeners, streams, codec, board >>

\* A registerResponse() that stores the credential set only.
registerResponseEditKeepingLocalId(t) ==
  /\ At(t, "registerResponse", "edit")
  /\ prefs' = [prefs EXCEPT !.credentials = StoredCredentials(tasks[t].credentials)]
  /\ tasks' = [tasks EXCEPT ![t] = Finally(@, "done", "success")]
  /\ UNCHANGED << lastKnownChallenge, fido2ApiClient, signInStateListeners, streams, codec, board >>

\* prefs.edit { putStringSet(PREF_CREDENTIALS, ...); putString(PREF_LOCAL_CREDENTIAL_ID, ...) }
registerResponseEdit(t) ==
  /\ At(t, "registerResponse", "edit")
  /\ prefs' = [prefs EXCEPT !.credentials = StoredCredentials(tasks[t].credentials),
                            !.localCredentialId = tasks[t].credentialId]
  /\ tasks' = [tasks EXCEPT ![t] = Finally(@, "done", "success")]
  /\ UNCHANGED << lastKnownChallenge, fido2ApiClient, signInStateListeners, streams, codec, board >>

-----------------------------------------------------------------------------
(* signinRequest(processing) and signinResponse(data, processing)          *)

signinRequest(t, n) == Execute(t, n, "signinRequest", NULL, NoIntent)

\* fido2ApiClient?.let { processing.postValue(true); try { username!!,
\* api.signinRequest(username, credentialId) } finally { } }: nothing is caught.
signinRequestCall(t) ==
  /\ At(t, "signinRequest", "start")
  /\ LET running == [tasks[t] EXCEPT !.flag = "true"]
     IN  IF fido2ApiClient = NULL
         THEN tasks' = [tasks EXCEPT ![t] = Finally(@, "done", "noClient")]
         ELSE IF prefs.username = NULL
         THEN tasks' = [tasks EXCEPT ![t] = Finally(running, "threw", "NullPointerException")]
         ELSE \E r \in ApiSigninRequest(prefs.username, prefs.localCredentialId) :
                LET sent == [running EXCEPT !.username = prefs.username,
                                            !.credentialId = prefs.localCredentialId]
                IN  tasks' = [tasks EXCEPT ![t] =
                                IF r.ok
                                THEN [sent EXCEPT !.challenge = r.challenge, !.pc = "challenge"]
                                ELSE Finally(sent, "threw", "ApiException")]
  /\ UNCHANGED << store, signInStateListeners, streams, codec, board >>

\* A signinRequest() that forgets the local credential id when the ceremony fails.
signinRequestIntentForgettingCredential(t) ==
  /\ At(t, "signinRequest", "challenge")
  /\ lastKnownChallenge' = tasks[t].challenge
  /\ \E awaited \in BOOLEAN :
       /\ tasks' = [tasks EXCEPT ![t] =
                      IF awaited THEN Finally([@ EXCEPT !.pendingIntent = TRUE], "done", "success")
                      ELSE Finally(@, "threw", "ExecutionException")]
       /\ prefs' = IF awaited THEN prefs ELSE [prefs EXCEPT !.localCredentialId = NULL]
  /\ UNCHANGED << fido2ApiClient, signInStateListeners, streams, codec, board >>

\* lastKnownChallenge = challenge; result.postValue(Tasks.await(getSignIntent(options)))
signinRequestIntent(t) ==
  /\ At(t, "signinRequest", "challenge")
  /\ lastKnownChallenge' = tasks[t].challenge
  /\ \E awaited \in BOOLEAN :
       tasks' = [tasks EXCEPT ![t] =
                   IF awaited THEN Finally([@ EXCEPT !.pendingIntent = TRUE], "done", "success")
                   ELSE Finally(@, "threw", "ExecutionException")]
  /\ UNCHANGED << prefs, fido2ApiClient, signInStateListeners, streams, codec, board >>

signinResponse(t, n, data) == Execute(t, n, "signinResponse", NULL, data)

\* username!!, lastKnownChallenge!!, deserializeFromBytes(getByteArrayExtra()) and
\* api.signinResponse(username, challenge, response); only ApiException is caught.
signinResponseCall(t) ==
  /\ At(t, "signinResponse", "start")
  /\ LET running == [tasks[t] EXCEPT !.flag = "true"]
     IN  IF prefs.username = NULL \/ lastKnownChallenge = NULL
         THEN tasks' = [tasks EXCEPT ![t] = Finally(running, "threw", "NullPointerException")]
         ELSE IF ~tasks[t].intent
         THEN tasks' = [tasks EXCEPT ![t] = Finally(running, "threw", "deserialize")]
         ELSE \E r \in ApiSigninResponse(prefs.username, lastKnownChallenge) :
                LET read == [running EXCEPT !.username = prefs.username,
                                            !.challenge = lastKnownChallenge]
                IN  tasks' = [tasks EXCEPT ![t] =
                                IF r.ok
                                THEN [read EXCEPT !.credentials = r.credentials,
                                                  !.token = r.token, !.pc = "edit"]
                                ELSE Finally(read, "done", "caught")]
  /\ UNCHANGED << store, signInStateListeners, streams, codec, board >>

\* A signinResponse() that stores the token and leaves the rest for later.
signinResponseEditTokenOnly(t) ==
  /\ At(t, "signinResponse", "edit")
  /\ prefs' = [prefs EXCEPT !.token = tasks[t].token]
  /\ tasks' = [tasks EXCEPT ![t] = Invoke(@, SignedIn(@.username, @.token), "success")]
  /\ UNCHANGED << lastKnownChallenge, fido2ApiClient, signInStateListeners, streams, codec, board >>

\* prefs.edit(commit = true) { token, credentials, local credential id }
signinResponseEdit(t) ==
  /\ At(t, "signinResponse", "edit")
  /\ prefs' = [prefs EXCEPT !.token = tasks[t].token,
                            !.credentials = StoredCredentials(tasks[t].credentials),
                            !.localCredentialId = tasks[t].credentialId]
  /\ tasks' = [tasks EXCEPT ![t] = Invoke(@, SignedIn(@.username, @.token), "success")]
  /\ UNCHANGED << lastKnownChallenge, fido2ApiClient, signInStateListeners, streams, codec, board >>

-----------------------------------------------------------------------------
(* The repository: the main thread's calls and the executor's tasks, at    *)
(* most n of them in flight.                                               *)

Submit(n) ==
  \E t \in Tasks :
    \/ \E name \in Usernames : username(t, n, name)
    \/ password(t, n)
    \/ clearToken(t, n)
    \/ signOut(t, n)
    \/ registerRequest(t, n)
    \/ \E data \in Intents : registerResponse(t, n, data)
    \/ signinRequest(t, n)
    \/ \E data \in Intents : signinResponse(t, n, data)

\* The steps of the tasks in flight.
Step ==
  \E t \in Tasks :
    \/ usernameCall(t) \/ usernameEdit(t)
    \/ passwordCall(t) \/ passwordEditToken(t) \/ passwordEditUsername(t) \/ passwordCatch(t)
    \/ clearTokenRead(t) \/ clearTokenEdit(t)
    \/ signOutEdit(t)
    \/ registerRequestCall(t) \/ registerRequestIntent(t)
    \/ registerResponseCall(t) \/ registerResponseEdit(t)
    \/ signinRequestCall(t) \/ signinRequestIntent(t)
    \/ signinResponseCall(t) \/ signinResponseEdit(t)
    \/ CopyListeners(t)

Configure == \E client \in { NULL, "client" } : setFido2APiClient(client)

\* The observers' side: LiveData objects come and go active, the tasks call them.
Observe(m) ==
  \/ \E s \in Streams : getSignInState(s, m) \/ onActive(s) \/ onInactive(s)
  \/ \E t \in Tasks : CopyElements(t) \/ CallListener(t)

\* The repository with nobody observing the sign-in state: up to MaxTasks tasks run
\* on the pool at once.
Next == Submit(MaxTasks) \/ Step \/ Configure

Spec == Init /\ [][Next]_vars

\* One operation at a time (the next is called when the last has ended), observed
\* through up to MaxObserved streams.
NextSerial == Submit(1) \/ Step \/ Configure \/ Observe(MaxObserved)

SerialSpec == Init /\ [][NextSerial]_vars

\* The same, observed through up to MaxStreams streams.
NextObserved == Submit(1) \/ Step \/ Configure \/ Observe(MaxStreams)

ObservedSpec == Init /\ [][NextObserved]_vars

\* One observer that stays: its LiveData is created and goes active, and is never
\* inactive again; the tasks call it.
Watch ==
  \/ getSignInState(1, 1)
  \/ onActive(1)
  \/ \E t \in Tasks : CopyElements(t) \/ CallListener(t)

\* The operations that store or announce the sign-in state, and signinRequest,
\* which signinResponse needs; submitted once the observer is registered.
SubmitSession(n) ==
  /\ Registered(1)
  /\ \E t \in Tasks :
       \/ \E name \in Usernames : username(t, n, name)
       \/ password(t, n)
       \/ clearToken(t, n)
       \/ signOut(t, n)
       \/ signinRequest(t, n)
       \/ \E data \in Intents : signinResponse(t, n, data)

StepSession ==
  \E t \in Tasks :
    \/ usernameCall(t) \/ usernameEdit(t)
    \/ passwordCall(t) \/ passwordEditToken(t) \/ passwordEditUsername(t) \/ passwordCatch(t)
    \/ clearTokenRead(t) \/ clearTokenEdit(t)
    \/ signOutEdit(t)
    \/ signinRequestCall(t) \/ signinRequestIntent(t)
    \/ signinResponseCall(t) \/ signinResponseEdit(t)
    \/ CopyListeners(t)

\* Up to MaxTasks tasks at once on the pool.
NextWatched == Watch \/ SubmitSession(MaxTasks) \/ StepSession \/ Configure

WatchedSpec == Init /\ [][NextWatched]_vars

-----------------------------------------------------------------------------
(* The credential cache codec on its own: a credential list the API may    *)
(* return is encoded by toStringSet() and the stored set is decoded by     *)
(* parseCredentials() (getCredentials); or the set found under             *)
(* PREF_CREDENTIALS is one that toStringSet() did not write.               *)

\* The credentials that may come at position i (from 1): their ids differ from
\* those at every other position; one id holds the delimiter.
CredentialsAt(i) ==
  { Credential(<< LetterA + i >>, << LetterK >>),
    Credential(<< LetterA + i, LetterA >>, << >>) }
    \cup (IF i = 1 THEN { Credential(<< LetterA, Semi, LetterK >>, << LetterK >>) } ELSE {})

\* Records that toStringSet() writes and records that it never writes.
RawRecords ==
  { << Zero, Semi, LetterA, Semi, LetterK >>,               \* "0;a;k"
    << Zero + 1, Semi, LetterA + 1, Semi, LetterK >>,       \* "1;b;k"
    << Zero, Semi, LetterA + 2, Semi, LetterK >>,           \* "0;c;k"
    << Zero, Semi, LetterA >>,                              \* "0;a"
    << >>,                                                  \* ""
    << Zero, Semi, LetterA, Semi, LetterK, Semi, LetterK >>,\* "0;a;k;k"
    << LetterK, Semi, LetterA, Semi, LetterK >> }           \* "k;a;k"

AddCredential(c) ==
  /\ codecPc = "input"
  /\ Len(credentialList) < MaxCreds
  /\ credentialList' = Append(credentialList, c)
  /\ UNCHANGED << store, signInStateListeners, streams, tasks, records, parsed, codecPc, board >>

\* putStringSet(PREF_CREDENTIALS, credentials.toStringSet())
Encode ==
  /\ codecPc = "input"
  /\ records' = toStringSet(credentialList)
  /\ codecPc' = "encoded"
  /\ UNCHANGED << store, signInStateListeners, streams, tasks, credentialList, parsed, board >>

\* prefs.liveStringSet(PREF_CREDENTIALS, emptySet()) holding a set of another origin.
ReadStored(set) ==
  /\ codecPc = "input"
  /\ credentialList = << >>
  /\ records' = set
  /\ codecPc' = "stored"
  /\ UNCHANGED << store, signInStateListeners, streams, tasks, credentialList, parsed, board >>

\* Transformations.map(...) { set -> parseCredentials(set) }
Decode ==
  /\ codecPc \in { "encoded", "stored" }
  /\ \E r \in parseCredentials(records) : parsed' = r
  /\ codecPc' = IF codecPc = "encoded" THEN "roundTrip" ELSE "parsed"
  /\ UNCHANGED << store, signInStateListeners, streams, tasks, credentialList, records, board >>

CodecNext ==
  \/ \E c \in CredentialsAt(Len(credentialList) + 1) : AddCredential(c)
  \/ Encode
  \/ \E set \in { S \in SUBSET RawRecords : Cardinality(S) <= MaxRaw } : ReadStored(set)
  \/ Decode

CodecSpec == Init /\ [][CodecNext]_vars

-----------------------------------------------------------------------------
(* BoardWriteForm.jsx: the form that writes a post or edits an existing    *)
(* one.  The user fills the inputs and clicks the save button; writeBoard   *)
(* validates and posts.  A file name is a sequence of one-character        *)
(* strings, so that the regular expression can be matched against it.      *)

MaxPosts == 2

Titles == { Blank, "hello" }
Contents == { Blank, "text" }

\* The post an existing-post form is opened with.
Queries == { [defined |-> TRUE, _id |-> "b1", title |-> "old", content |-> "old text"] }

FileNames ==
  { << "a", ".", "j", "p", "g" >>,
    << "a", ".", "P", "N", "G" >>,
    << "m", "y", " ", "a", ".", "g", "i", "f" >>,
    << "a", ".", "t", "x", "t" >>,
    << "a", ".", "J", "p", "g" >>,
    << ".", "j", "p", "g" >>,
    << "a", ".", "p", "n", "g", ".", "e", "x", "e" >>,
    << "j", "p", "g" >> }

Extensions ==
  { << "j", "p", "g" >>, << "g", "i", "f" >>, << "p", "n", "g" >>,
    << "J", "P", "G" >>, << "G", "I", "F" >>, << "P", "N", "G" >> }

\* name.match(imgExp) is not null, imgExp = /([^\s]+(?=\.(jpg|gif|png|JPG|GIF|PNG))\.\2)/:
\* somewhere in the name, one or more characters that are not whitespace are
\* followed by a dot and one of the six extensions.
imgExp(name) ==
  \E i \in 1..Len(name), j \in 1..Len(name) :
    /\ i <= j
    /\ \A k \in i..j : name[k] # " "
    /\ j + 4 <= Len(name)
    /\ name[j + 1] = "."
    /\ SubSeq(name, j + 2, j + 4) \in Extensions

\* The form is mounted, for a new post (query undefined) or an existing one; the
\* effect copies the post's title and content into the inputs.
BoardWriteForm(q) ==
  /\ formPc = "closed"
  /\ formPc' = "open"
  /\ query' = q
  /\ boardTitle' = IF q # undefined THEN q.title ELSE Blank
  /\ boardContent' = IF q # undefined THEN q.content ELSE Blank
  /\ imgFile' = << >>
  /\ UNCHANGED << store, signInStateListeners, streams, tasks, codec, alerted, posts >>

\* The user types in the title input, in the content textarea, or picks a file or
\* none.
EditTitle(v) ==
  /\ formPc = "open" /\ boardTitle # v
  /\ boardTitle' = v
  /\ UNCHANGED << store, signInStateListeners, streams, tasks, codec,
                  query, boardContent, imgFile, formPc, alerted, posts >>

EditContent(v) ==
  /\ formPc = "open" /\ boardContent # v
  /\ boardContent' = v
  /\ UNCHANGED << store, signInStateListeners, streams, tasks, codec,
                  query, boardTitle, imgFile, formPc, alerted, posts >>

ChooseFile(files) ==
  /\ formPc = "open" /\ imgFile # files
  /\ imgFile' = files
  /\ UNCHANGED << store, signInStateListeners, streams, tasks, codec,
                  query, boardTitle, boardContent, formPc, alerted, posts >>

\* formData and url as writeBoard builds them.
FormData ==
  [url |-> IF query # undefined THEN "/board/update" ELSE "/board/write",
   boardId |-> IF query # undefined THEN query._id ELSE NULL,
   title |-> boardTitle,
   content |-> boardContent,
   imgFile |-> imgFile]

\* writeBoard(): with no title, the alert, then boardTitle.focus() (boardTitle is
\* the ref, which has no focus: a TypeError) or the return; with no content, the
\* alert and the focus, and no return; else, with a file, the alert and the return
\* when its name does not match and is not empty; then axios.post(url, formData).
writeBoard ==
  /\ formPc = "open"
  /\ Len(posts) < MaxPosts
  /\ IF boardTitle = Blank
     THEN alerted' = "title" /\ posts' = posts
     ELSE IF boardContent = Blank
     THEN alerted' = "content" /\ posts' = Append(posts, FormData)
     ELSE IF imgFile # << >> /\ ~imgExp(imgFile[1]) /\ imgFile[1] # << >>
     THEN alerted' = "image" /\ posts' = posts
     ELSE alerted' = "none" /\ posts' = Append(posts, FormData)
  /\ UNCHANGED << store, signInStateListeners, streams, tasks, codec,
                  query, boardTitle, boardContent, imgFile, formPc >>

BoardNext ==
  \/ \E q \in Queries \cup { undefined } : BoardWriteForm(q)
  \/ \E v \in Titles : EditTitle(v)
  \/ \E v \in Contents : EditContent(v)
  \/ \E files \in { << >> } \cup { << f >> : f \in FileNames } : ChooseFile(files)
  \/ writeBoard

BoardSpec == Init /\ [][BoardNext]_vars

-----------------------------------------------------------------------------
(* The properties.                                                         *)

Range(seq) == { seq[i] : i \in 1..Len(seq) }
EndedTask(t) == tasks[t].pc \in { "done", "threw" }
StoreCleared == prefs.username = NULL /\ prefs.token = NULL /\ ~prefs.credentials.has

\* Every listener of the copy has been told the task's state, once, and no other
\* stream has been told anything by the task.
ToldTheCopy(t) ==
  \A s \in Streams :
    tasks[t].got[s] = IF s \in Range(tasks[t].listeners) THEN << tasks[t].state >> ELSE << >>

\* Whatever the task has told a listener is its state, and once it has ended
\* normally the listeners told are those of its copy.
ToldTheState(t) ==
  \A s \in Streams :
    /\ Range(tasks[t].got[s]) \subseteq { tasks[t].state }
    /\ tasks[t].pc = "done" => (tasks[t].got[s] # << >> <=> s \in Range(tasks[t].listeners))

\* C1: in every reachable state of the store, under any interleaving of the
\* operations on the executor pool, a stored token implies a stored username.
C1_TokenImpliesUsername == prefs.token # NULL => prefs.username # NULL

\* C2: the value a stream returned by getSignInState starts with is a function of
\* the stored username and token alone: no username, SignedOut; a username and no
\* token, SigningIn(username); both, SignedIn(username, token).
C2_InitialState ==
  [][\A s \in Streams :
       ~streams[s].created /\ streams'[s].created =>
         streams'[s].value =
           IF prefs.username = NULL THEN SignedOut
           ELSE IF prefs.token = NULL THEN SigningIn(prefs.username)
           ELSE SignedIn(prefs.username, prefs.token)]_vars

\* C2, its case: a stream not registered holds SignedIn for the stored username and
\* token while credentials, a local credential id and a challenge are there too.
C2_Witness ==
  /\ streams[1].created /\ ~Registered(1)
  /\ prefs.token # NULL
  /\ streams[1].value = SignedIn(prefs.username, prefs.token)
  /\ prefs.credentials.has /\ prefs.localCredentialId # NULL /\ lastKnownChallenge # NULL

\* C3: when the API rejects the password, the store then holds no username, no
\* token and no credentials, and the listeners are told SignInError(message), the
\* message being the API's or, when it has none, the default one.
C3_PasswordRejected ==
  \A t \in Tasks :
    tasks[t].op = "password" /\ tasks[t].outcome = "rejected" =>
      /\ StoreCleared
      /\ tasks[t].state =
           SignInError(IF tasks[t].message = NULL THEN DefaultMessage ELSE tasks[t].message)
      /\ tasks[t].invoked = 1 /\ ToldTheState(t)

C3_Witness ==
  \E t \in Tasks :
    /\ tasks[t].op = "password" /\ tasks[t].outcome = "rejected" /\ tasks[t].pc = "done"
    /\ tasks[t].message = NULL
    /\ tasks[t].got[1] = << SignInError(DefaultMessage) >>
    /\ prefs.localCredentialId # NULL

\* C4: after password() succeeds, the listeners are told SignedIn(username, token)
\* with the username the operation read and the token the API returned, and the
\* store holds a username and that token.
C4_PasswordSucceeded ==
  \A t \in Tasks :
    tasks[t].op = "password" /\ tasks[t].outcome = "success" =>
      /\ tasks[t].token \in Tokens
      /\ tasks[t].state = SignedIn(tasks[t].username, tasks[t].token)
      /\ prefs.username # NULL
      /\ prefs.token = tasks[t].token
      /\ tasks[t].invoked = 1 /\ ToldTheState(t)

C4_Witness ==
  \E t \in Tasks :
    /\ tasks[t].op = "password" /\ tasks[t].outcome = "success" /\ tasks[t].pc = "done"
    /\ tasks[t].got[1] = << SignedIn("alice", "t1") >>
    /\ ~prefs.credentials.has

\* C5: after username(name) succeeds, the listeners are told exactly
\* SigningIn(name), the store holds a username, and no step of the operation
\* changed the stored token.
C5_UsernameSucceeded ==
  /\ [](\A t \in Tasks :
          tasks[t].op = "username" /\ tasks[t].outcome = "success" =>
            /\ tasks[t].username \in Usernames
            /\ tasks[t].state = SigningIn(tasks[t].username)
            /\ prefs.username # NULL
            /\ tasks[t].invoked = 1 /\ ToldTheState(t))
  /\ [][\A t \in Tasks :
          tasks[t].op = "username" /\ ~Free(t) => prefs'.token = prefs.token]_vars

C5_Witness ==
  \E t \in Tasks :
    /\ tasks[t].op = "username" /\ tasks[t].outcome = "success" /\ tasks[t].pc = "done"
    /\ tasks[t].got[1] = << SigningIn("alice") >>
    /\ prefs.token # NULL

\* C6: signOut() in any state removes username, token and credentials from the
\* store and tells the listeners SignedOut; it never ends by an exception.
C6_SignOut ==
  \A t \in Tasks :
    tasks[t].op = "signOut" =>
      /\ tasks[t].pc # "threw"
      /\ tasks[t].pc # "start" =>
           /\ tasks[t].outcome = "success"
           /\ StoreCleared
           /\ tasks[t].state = SignedOut
           /\ tasks[t].invoked = 1 /\ ToldTheState(t)

\* Short of the exception: the store is cleared and whoever is told is told SignedOut.
C6_ClearsAndTells ==
  \A t \in Tasks :
    tasks[t].op = "signOut" /\ tasks[t].pc # "start" =>
      /\ tasks[t].outcome = "success"
      /\ StoreCleared
      /\ tasks[t].state = SignedOut
      /\ tasks[t].invoked = 1 /\ ToldTheState(t)

C6_Witness ==
  \E t \in Tasks :
    /\ tasks[t].op = "signOut" /\ tasks[t].pc = "done"
    /\ tasks[t].got[1] = << SignedOut >>
    /\ streams[1].value = SignedOut
    /\ prefs.localCredentialId # NULL

\* C7: an operation that takes an in-flight flag never leaves it true once it has
\* ended, on whatever path it ended.
C7_FlagCleared ==
  \A t \in Tasks : tasks[t].op \in FlagOps /\ EndedTask(t) => tasks[t].flag # "true"


C7_Witness ==
  \E t \in Tasks :
    /\ tasks[t].op = "password" /\ tasks[t].pc = "threw"
    /\ tasks[t].outcome = "NullPointerException"
    /\ tasks[t].flag = "true"

\* The ends that complete a transition of the sign-in state.
CompletesTransition(t) ==
  \/ tasks[t].op \in { "username", "password", "clearToken", "signOut", "signinResponse" }
       /\ tasks[t].outcome = "success"
  \/ tasks[t].op = "password" /\ tasks[t].outcome = "rejected"

\* C8: an operation that completes a transition of the sign-in state has called
\* invokeSignInStateListeners once and told every listener of its copy the
\* resulting state, each exactly once; an operation that ends without a
\* transition has told no listener anything.
C8_NotifiedOnce ==
  \A t \in Tasks :
    EndedTask(t) =>
      IF CompletesTransition(t)
      THEN tasks[t].invoked = 1 /\ ToldTheCopy(t)
      ELSE tasks[t].invoked = 0 /\ \A s \in Streams : tasks[t].got[s] = << >>

\* With one stream there is no second listener to be told twice: each listener of
\* the copy is told once, also when the copy broke.
C8_OneListener ==
  \A t \in Tasks :
    EndedTask(t) /\ CompletesTransition(t) /\ Len(tasks[t].listeners) <= 1 =>
      tasks[t].invoked = 1 /\ ToldTheCopy(t)

UniqueIds(list) ==
  \A i, j \in 1..Len(list) : list[i].id = list[j].id => i = j
DelimiterFree(list) ==
  \A i \in 1..Len(list) : Semi \notin Range(list[i].id) \cup Range(list[i].publicKey)

\* C9: for a credential list of any length whose ids are unique and whose ids and
\* public keys hold no ';', parseCredentials(toStringSet(list)) is the list.
C9_RoundTrip ==
  codecPc = "roundTrip" /\ UniqueIds(credentialList) /\ DelimiterFree(credentialList) =>
    parsed = ParseOk(credentialList)

\* The same for the lists of at most ten credentials, whose indexes are one digit.
C9_UpToTen ==
  codecPc = "roundTrip" /\ Len(credentialList) <= 10
    /\ UniqueIds(credentialList) /\ DelimiterFree(credentialList) =>
      parsed = ParseOk(credentialList)

IsNumber(field) == field # << >> /\ \A i \in 1..Len(field) : field[i] \in Zero..(Zero + 9)
Malformed(s) == Len(Split(s)) # 3 \/ ~IsNumber(Split(s)[1])

\* C10: parseCredentials throws whenever a record of the set has fewer or more than
\* three ';'-separated fields or a first field that is not a number.
C10_MalformedFails ==
  codecPc \in { "roundTrip", "parsed" } /\ (\E s \in records : Malformed(s)) => ~parsed.ok

\* Records of fewer than three fields do make it throw.
C10_TooFewFields ==
  codecPc \in { "roundTrip", "parsed" } /\ (\E s \in records : Len(Split(s)) < 3) => ~parsed.ok


\* The tasks that have handed a challenge to the API's confirm step.
Submitted(t, op) == tasks[t].op = op /\ tasks[t].challenge # NULL

\* C11: the challenge registerResponse hands to the API was issued by a
\* registerRequest, and the one signinResponse hands to it by a signinRequest.
C11_ChallengeMatches ==
  \A t \in Tasks :
    /\ Submitted(t, "registerResponse") => tasks[t].challenge \in RegisterChallenges
    /\ Submitted(t, "signinResponse") => tasks[t].challenge \in SigninChallenges

\* With no challenge at all the response ends by an exception before the API call,
\* and the store is as it was.
C11_AbsentChallengeFails ==
  [][\A t \in Tasks :
       tasks[t].op \in { "registerResponse", "signinResponse" } /\ tasks[t].pc = "start"
         /\ tasks'[t].pc # "start" /\ lastKnownChallenge = NULL =>
           tasks'[t].pc = "threw" /\ tasks'[t].challenge = NULL /\ prefs' = prefs]_vars


\* The step of task t that follows a successful confirm call of a response.
ConfirmedWrite(t) ==
  /\ tasks[t].op \in { "registerResponse", "signinResponse" }
  /\ tasks[t].pc = "edit" /\ tasks'[t].pc # "edit"
  /\ tasks[t].credentials \in CredLists

\* C12: a step that changes the stored credentials either removes the key or is
\* the write of registerResponse or signinResponse after its API call returned,
\* and what it stores is the encoding of the list the API returned.
C12_CredentialsWrittenByResponses ==
  [][prefs'.credentials # prefs.credentials =>
       \/ ~prefs'.credentials.has
       \/ \E t \in Tasks :
            ConfirmedWrite(t) /\ prefs'.credentials = StoredCredentials(tasks[t].credentials)]_vars

C12_Witness ==
  /\ prefs.credentials = StoredCredentials(<< Cred2, Cred1 >>)
  /\ \E t \in Tasks :
       tasks[t].op = "registerResponse" /\ tasks[t].pc = "done" /\ tasks[t].outcome = "success"
  /\ \E t \in Tasks : tasks[t].op = "clearToken" /\ ~Free(t)


\* C13: when a stream's listener becomes registered (onActive) and no operation is
\* running, the value the stream holds, which is what its new observer is
\* delivered, is the state derived from the username and token stored then.
C13_FreshOnRegistration ==
  [][\A s \in Streams :
       ~Registered(s) /\ Registered(s)' /\ InFlight = {} =>
         streams[s].value = InitialValue(prefs.username, prefs.token)]_vars


CeremonyOps == { "registerRequest", "registerResponse", "signinRequest", "signinResponse" }
Failed(t) == EndedTask(t) /\ tasks[t].outcome \notin { "success", "noClient" }
Acts(t) == ~Free(t) /\ tasks'[t] # tasks[t]

\* C14: a registerRequest, registerResponse, signinRequest or signinResponse that
\* fails has called no listener, and none of its steps changed the store or a
\* stream: a step of these operations that changes either is the edit of a
\* response, after which the operation has succeeded, or a listener call of a
\* signinResponse that has.
C14_FailedCeremony ==
  /\ [](\A t \in Tasks :
          tasks[t].op \in CeremonyOps /\ Failed(t) =>
            /\ tasks[t].invoked = 0 /\ tasks[t].state = NoState
            /\ \A s \in Streams : tasks[t].got[s] = << >>)
  /\ [][\A t \in Tasks :
          tasks[t].op \in CeremonyOps /\ Acts(t) =>
            \/ tasks[t].pc = "edit" /\ tasks'[t].outcome = "success"
            \/ tasks[t].outcome = "success"
            \/ prefs' = prefs /\ streams' = streams]_vars

C14_Witness ==
  \E t \in Tasks :
    /\ tasks[t].op = "signinResponse" /\ tasks[t].pc = "done" /\ tasks[t].outcome = "caught"
    /\ Registered(1)
    /\ streams[1].value = SignedIn(prefs.username, prefs.token)
    /\ prefs.credentials.has /\ prefs.localCredentialId # NULL


\* C15: when the API raises on username(name), the operation ends by that
\* exception, which nothing catches, at its first step: the store and the streams
\* are as they were and no listener was called; a username() that ends otherwise
\* has succeeded.
C15_UsernameFailed ==
  /\ [](\A t \in Tasks :
          tasks[t].op = "username" /\ EndedTask(t) =>
            IF tasks[t].outcome = "success"
            THEN tasks[t].invoked = 1
            ELSE /\ tasks[t].pc = "threw" /\ tasks[t].outcome = "ApiException"
                 /\ tasks[t].invoked = 0 /\ tasks[t].state = NoState
                 /\ \A s \in Streams : tasks[t].got[s] = << >>)
  /\ [][\A t \in Tasks :
          tasks[t].op = "username" /\ Acts(t) /\ tasks'[t].outcome = "ApiException" =>
            tasks[t].pc = "start" /\ prefs' = prefs /\ streams' = streams]_vars

C15_Witness ==
  \E t \in Tasks :
    /\ tasks[t].op = "username" /\ tasks[t].pc = "threw"
    /\ tasks[t].outcome = "ApiException"
    /\ Registered(1)
    /\ streams[1].value = SignedIn(prefs.username, prefs.token)
    /\ prefs.username = "bob" /\ tasks[t].username = "alice"
    /\ prefs.credentials.has


\* C16: clearToken() with a username and a token stored removes the token, leaves
\* the username, and tells the listeners SigningIn(username) for the username
\* stored, which is the state derived from the store afterwards.
C16_ClearToken ==
  /\ [](\A t \in Tasks :
          tasks[t].op = "clearToken" /\ tasks[t].outcome = "success" =>
            /\ prefs.token = NULL
            /\ prefs.username = tasks[t].username
            /\ tasks[t].state = SigningIn(prefs.username)
            /\ tasks[t].state = InitialValue(prefs.username, prefs.token)
            /\ tasks[t].invoked = 1 /\ ToldTheState(t))
  /\ [][\A t \in Tasks :
          tasks[t].op = "clearToken" /\ Acts(t) =>
            /\ prefs'.username = prefs.username
            /\ prefs'.localCredentialId = prefs.localCredentialId
            /\ tasks[t].pc = "edit" /\ prefs.token # NULL => prefs'.token = NULL]_vars

C16_Witness ==
  \E t \in Tasks :
    /\ tasks[t].op = "clearToken" /\ tasks[t].pc = "done"
    /\ tasks[t].got[1] = << SigningIn("bob") >>
    /\ streams[1].value = SigningIn("bob")
    /\ prefs.username = "bob" /\ prefs.localCredentialId # NULL


\* C17: a signinResponse that succeeds writes the token, the credential set and
\* the local credential id in one edit, before which it has called no listener;
\* no step of it changes the stored username; the listeners are then told
\* SignedIn(username, token) for the stored username and the token written.
C17_SigninResponse ==
  /\ [](\A t \in Tasks :
          tasks[t].op = "signinResponse" /\ tasks[t].outcome = "success" =>
            /\ prefs.token = tasks[t].token /\ tasks[t].token \in Tokens
            /\ prefs.credentials = StoredCredentials(tasks[t].credentials)
            /\ prefs.localCredentialId = tasks[t].credentialId
            /\ tasks[t].credentialId \in KeyHandles
            /\ tasks[t].state = SignedIn(prefs.username, prefs.token)
            /\ tasks[t].invoked = 1 /\ ToldTheState(t))
  /\ [][\A t \in Tasks :
          tasks[t].op = "signinResponse" /\ Acts(t) =>
            /\ prefs'.username = prefs.username
            /\ prefs' # prefs =>
                 /\ tasks[t].pc = "edit" /\ tasks'[t].outcome = "success"
                 /\ tasks[t].invoked = 0 /\ \A s \in Streams : tasks[t].got[s] = << >>
                 /\ prefs' = [prefs EXCEPT !.token = tasks[t].token,
                                           !.credentials = StoredCredentials(tasks[t].credentials),
                                           !.localCredentialId = tasks[t].credentialId]]_vars

C17_Witness ==
  \E t \in Tasks :
    /\ tasks[t].op = "signinResponse" /\ tasks[t].pc = "done" /\ tasks[t].outcome = "success"
    /\ tasks[t].got[1] = << SignedIn("alice", "t1") >>
    /\ prefs = [username |-> "alice", token |-> "t1",
                credentials |-> StoredCredentials(<< Cred2, Cred1 >>),
                localCredentialId |-> "kh1"]


\* C18: a registerResponse that succeeds leaves the stored username and token,
\* stores the encoding of the credential list the API returned in place of the
\* set stored before, sets the local credential id to the key handle of the new
\* credential, and calls no listener: the streams keep their value and the state
\* derived from the store is SignedIn as before.
C18_RegisterResponse ==
  /\ [](\A t \in Tasks :
          tasks[t].op = "registerResponse" /\ tasks[t].outcome = "success" =>
            /\ tasks[t].pc = "done"
            /\ tasks[t].credentials \in CredLists
            /\ prefs.credentials = StoredCredentials(tasks[t].credentials)
            /\ tasks[t].credentialId \in KeyHandles
            /\ prefs.localCredentialId = tasks[t].credentialId
            /\ InitialValue(prefs.username, prefs.token) = SignedIn(prefs.username, prefs.token)
            /\ tasks[t].invoked = 0 /\ \A s \in Streams : tasks[t].got[s] = << >>)
  /\ [][\A t \in Tasks :
          tasks[t].op = "registerResponse" /\ Acts(t) =>
            /\ prefs'.username = prefs.username /\ prefs'.token = prefs.token
            /\ streams' = streams]_vars

C18_Witness ==
  \E t \in Tasks :
    /\ tasks[t].op = "registerResponse" /\ tasks[t].outcome = "success"
    /\ tasks[t].credentials = << Cred1 >>
    /\ prefs.credentials = StoredCredentials(<< Cred1 >>)
    /\ prefs.localCredentialId = "kh1"
    /\ Registered(1) /\ streams[1].value = SignedIn("alice", "t1")

\* The same moment one step earlier: the set about to be replaced is another one.
C18_Replaces ==
  \E t \in Tasks :
    /\ tasks[t].op = "registerResponse" /\ tasks[t].pc = "edit"
    /\ tasks[t].credentials = << Cred1 >>
    /\ prefs.credentials = StoredCredentials(<< Cred2, Cred1 >>)


\* C19: the listeners a notification calls are those registered at one moment of
\* its toList(), when it began or when it ended, whatever the main thread adds or
\* removes meanwhile, and the notification does not end by an exception.
C19_Snapshot ==
  [][\A t \in Tasks :
       tasks[t].pc = "copy" /\ tasks'[t].pc # "copy" =>
         /\ tasks'[t].listeners \in { tasks[t].listeners, signInStateListeners }
         /\ ~tasks'[t].broken]_vars

\* Once the copy is taken, what the main thread does to the list changes neither
\* the copy nor who is called: each listener is called as often as the copy holds it.
C19_CopyIsIterated ==
  /\ [](\A t \in Tasks :
          EndedTask(t) /\ tasks[t].invoked = 1 =>
            \A s \in Streams :
              Len(tasks[t].got[s]) =
                Cardinality({ i \in 1..Len(tasks[t].listeners) : tasks[t].listeners[i] = s }))
  /\ [][\A t \in Tasks :
          tasks[t].pc = "listener" /\ tasks'[t].pc = "listener" =>
            tasks'[t].listeners = tasks[t].listeners]_vars


RequestOps == { "registerRequest", "signinRequest" }

\* C20: with no FIDO2 client configured when they look for it, registerRequest
\* and signinRequest end normally at their first step without having set the flag, called the API
\* (no challenge was obtained), posted a result or called a listener, and that
\* step leaves the store, the pending challenge and the streams as they were.
C20_NoClient ==
  /\ [](\A t \in Tasks :
          tasks[t].op \in RequestOps /\ tasks[t].outcome = "noClient" =>
            /\ tasks[t].pc = "done"
            /\ tasks[t].flag = "unset"
            /\ tasks[t].challenge = NULL
            /\ ~tasks[t].pendingIntent
            /\ tasks[t].invoked = 0 /\ \A s \in Streams : tasks[t].got[s] = << >>)
  /\ [][\A t \in Tasks :
          tasks[t].op \in RequestOps /\ tasks[t].pc = "start" /\ Acts(t)
            /\ fido2ApiClient = NULL =>
            /\ tasks'[t].pc = "done" /\ tasks'[t].outcome = "noClient"
            /\ prefs' = prefs /\ lastKnownChallenge' = lastKnownChallenge
            /\ streams' = streams]_vars

C20_Witness ==
  \E t \in Tasks :
    /\ tasks[t].op = "registerRequest" /\ tasks[t].outcome = "noClient"
    /\ fido2ApiClient = NULL
    /\ lastKnownChallenge = "ch2"
    /\ prefs.token # NULL /\ prefs.credentials.has
    /\ Registered(1)

\* The step of username() or password() that has stored the username and calls
\* invokeSignInStateListeners with the state of its success.
Notifies(t) ==
  /\ tasks[t].op \in { "username", "password" }
  /\ tasks[t].invoked = 0 /\ tasks'[t].invoked = 1
  /\ tasks'[t].outcome = "success"

\* C21: whenever username() or password() succeeds, the username in the state it
\* tells the listeners (SigningIn(u), SignedIn(u, token)) is the username it has
\* stored, whatever username the API returned.
C21_SameIdentifier ==
  [][\A t \in Tasks : Notifies(t) => tasks'[t].state.username = prefs'.username]_vars

\* C21, what holds: the username stored is the one the API returned, the username
\* told is the one the operation was called with (username) or read before the
\* call (password), and the two agree whenever the API returned that same name.
C21_StoredIsReturned ==
  [][\A t \in Tasks :
       Notifies(t) =>
         /\ prefs'.username = tasks'[t].result
         /\ tasks'[t].state.username = tasks'[t].username
         /\ tasks'[t].result = tasks'[t].username =>
              tasks'[t].state.username = prefs'.username]_vars

\* The variant of a sign-in state, SignInError counted as SignedOut.
Variant(state) == IF state.kind = "SignInError" THEN "SignedOut" ELSE state.kind

\* Every operation submitted has finished.
Quiescent == \A t \in Tasks : Free(t)

\* C22: whatever operations ran on the pool and however they interleaved, once
\* all of them have finished the last state delivered to an observer registered
\* throughout has the variant of the state derived from the stored username and
\* token.
C22_QuiescentConsistency ==
  Quiescent /\ Registered(1) =>
    Variant(streams[1].value) = Variant(InitialValue(prefs.username, prefs.token))

\* The operations that store the local credential id.
ResponseOps == { "registerResponse", "signinResponse" }

Lower(ch) ==
  CASE ch = "J" -> "j" [] ch = "P" -> "p" [] ch = "G" -> "g"
    [] ch = "I" -> "i" [] ch = "F" -> "f" [] ch = "N" -> "n"
    [] OTHER -> ch

EndsInImage(name) ==
  /\ Len(name) >= 3
  /\ [k \in 1..3 |-> Lower(name[Len(name) - 3 + k])]
       \in { << "j", "p", "g" >>, << "g", "i", "f" >>, << "p", "n", "g" >> }

\* The request goes to /board/update with the boardId exactly when the form was
\* opened with an existing post, and to /board/write otherwise.
Routed(request) ==
  IF query # undefined
  THEN request.url = "/board/update" /\ request.boardId = query._id
  ELSE request.url = "/board/write" /\ request.boardId = NULL

\* C24: writeBoard sends the POST request only when validation passed: with an
\* empty title, an empty content, or an attached file whose name does not end in
\* jpg, gif or png (either case), no request is sent; a request that is sent goes
\* to /board/update with the boardId exactly when the form was opened with an
\* existing post, and to /board/write otherwise.
C24_ValidatedPost ==
  [][posts' # posts =>
       /\ boardTitle # Blank
       /\ boardContent # Blank
       /\ imgFile # << >> => EndsInImage(imgFile[1])
       /\ Routed(posts'[Len(posts')])]_vars

\* C24, what holds: no request is sent with an empty title, nor, when the content
\* is not empty, with a file whose name holds no dot followed by one of the six
\* extensions; and every request sent is routed as stated.
C24_TitleAndRoute ==
  [][posts' # posts =>
       /\ boardTitle # Blank
       /\ boardContent # Blank /\ imgFile # << >> => imgExp(imgFile[1])
       /\ Routed(posts'[Len(posts')])
       /\ posts' = Append(posts, FormData)]_vars

\* C24, a request sent with no content.
C24_EmptyContentPosted ==
  \E i \in 1..Len(posts) : posts[i].title # Blank /\ posts[i].content = Blank

\* C24, a request sent, title and content filled, with a file whose name does not
\* end in an image's extension.
C24_OtherFilePosted ==
  \E i \in 1..Len(posts) :
    /\ posts[i].content # Blank
    /\ posts[i].imgFile # << >>
    /\ ~EndsInImage(posts[i].imgFile[1])

=============================================================================
